---- MODULE Spec2Model ----
(***************************************************************************)
(* Model of the AI knowledge base of server.js: the text helpers           *)
(* (normalizeText, tokenize, splitSentences), extractTextFromFile, the     *)
(* admin upload and delete handlers of data.aiKnowledge, the public chat   *)
(* handler, and the accounts: signup, verification, approval, login and    *)
(* the routes of a session.                                                *)
(*                                                                         *)
(* A JavaScript string is a sequence of one-character strings.  A fixed    *)
(* message of the server is kept whole, as a one-element sequence          *)
(* (Lit), so it never equals text made of characters.                      *)
(***************************************************************************)
EXTENDS Integers, Sequences, FiniteSets, TLC

VARIABLES data, files, pending, nextFile, nextToken, resp, call

vars == <<data, files, pending, nextFile, nextToken, resp, call>>

----------------------------------------------------------------------------
(* Bounds of the model *)

\* longest text given to tokenize on its own
MaxTokenizeLen == 7
\* longest text given to splitSentences on its own
MaxSplitLen == 6
\* longest token sequence given to the overlap count on its own
MaxToks == 3
\* number of files the upload route receives in one behaviour
MaxUploads == 2
\* the same, in the behaviours that fill the store for the chat
MaxDocs == 3
\* number of admin sessions opened in one behaviour
MaxSessions == 1
\* number of words of a phrase given to tokenize
MaxWords == 4
\* number of users that sign up in one behaviour
MaxUsers == 1
\* number of user sessions opened in one behaviour
MaxLogins == 1
\* number of profile photos sent in one behaviour
MaxPhotos == 1

----------------------------------------------------------------------------
(* Characters and strings *)

Lit(msg) == <<msg>>

\* the value of a missing property (req.body.question, a missing argument)
Undefined == Lit("undefined")

Lowers == <<"a","b","c","d","e","f","g","h","i","j","k","l","m",
            "n","o","p","q","r","s","t","u","v","w","x","y","z">>
Uppers == <<"A","B","C","D","E","F","G","H","I","J","K","L","M",
            "N","O","P","Q","R","S","T","U","V","W","X","Y","Z">>
Digits == {"0","1","2","3","4","5","6","7","8","9"}

Range(s) == {s[i] : i \in DOMAIN s}

\* the class \s of a regular expression (ASCII part)
Spaces == {" ", "\t", "\n", "\r"}

IsSpace(c) == c \in Spaces

\* the class [a-z0-9]
LowerAlnums == Range(Lowers) \cup Digits

IsLowerAlnum(c) == c \in LowerAlnums

\* the class [.!?]
Terminals == {".", "!", "?"}

IsTerminal(c) == c \in Terminals

LowerOf == [c \in Range(Uppers) |-> Lowers[CHOOSE i \in DOMAIN Uppers : Uppers[i] = c]]

ToLowerChar(c) == IF c \in DOMAIN LowerOf THEN LowerOf[c] ELSE c

\* String(text || '')
Str(text) == IF text = Undefined THEN <<>> ELSE text

toLowerCase(s) == [i \in DOMAIN s |-> ToLowerChar(s[i])]

\* .replace(/[^a-z0-9\s]/g, ' ')
ReplaceNonAlnum(s) ==
  [i \in DOMAIN s |-> IF IsLowerAlnum(s[i]) \/ IsSpace(s[i]) THEN s[i] ELSE " "]

RECURSIVE DropSpaces(_)
DropSpaces(s) ==
  IF s # <<>> /\ IsSpace(Head(s)) THEN DropSpaces(Tail(s)) ELSE s

\* .replace(/\s+/g, ' ')
RECURSIVE CollapseSpaces(_)
CollapseSpaces(s) ==
  IF s = <<>> THEN <<>>
  ELSE IF IsSpace(Head(s)) THEN <<" ">> \o CollapseSpaces(DropSpaces(Tail(s)))
  ELSE <<Head(s)>> \o CollapseSpaces(Tail(s))

RECURSIVE DropTrailingSpaces(_)
DropTrailingSpaces(s) ==
  IF s # <<>> /\ IsSpace(s[Len(s)])
    THEN DropTrailingSpaces(SubSeq(s, 1, Len(s) - 1))
    ELSE s

\* String.prototype.trim
Trim(s) == DropTrailingSpaces(DropSpaces(s))

\* .split(' '): cut at every single space, empty pieces kept
RECURSIVE SplitSpace(_)
SplitSpace(s) ==
  IF \E i \in DOMAIN s : s[i] = " "
    THEN LET i == CHOOSE k \in DOMAIN s : s[k] = " " /\ \A j \in 1..(k-1) : s[j] # " "
         IN  <<SubSeq(s, 1, i - 1)>> \o SplitSpace(SubSeq(s, i + 1, Len(s)))
    ELSE <<s>>

normalizeText(text) ==
  Trim(CollapseSpaces(ReplaceNonAlnum(toLowerCase(Str(text)))))

ThreeChars == 2 + 1

MinTokenLen == 2

LongerThanMin(w) == Len(w) > MinTokenLen

LongerOrEqualMin(w) == Len(w) >= MinTokenLen

KeepWord(w) == LongerThanMin(w)

tokenize(text) == SelectSeq(SplitSpace(normalizeText(text)), KeepWord)

\* .split(/(?<=[.!?])\s+/): cut at every whitespace run that follows a
\* terminal character; the run is consumed, the terminal stays in front
IsCut(s, k) == k > 1 /\ IsSpace(s[k]) /\ IsTerminal(s[k-1])

RECURSIVE SplitAfterTerminal(_)
SplitAfterTerminal(s) ==
  IF \E k \in DOMAIN s : IsCut(s, k)
    THEN LET k == CHOOSE c \in DOMAIN s : IsCut(s, c) /\ \A j \in 1..(c-1) : ~IsCut(s, j)
         IN  <<SubSeq(s, 1, k - 1)>>
               \o SplitAfterTerminal(DropSpaces(SubSeq(s, k, Len(s))))
    ELSE <<s>>

NonBlank(s) == s # <<>> /\ Len(Trim(s)) > 0

splitUncollapsed(text) ==
  SelectSeq(SplitAfterTerminal(Str(text)), NonBlank)

splitSentences(text) ==
  SelectSeq(SplitAfterTerminal(CollapseSpaces(Str(text))), NonBlank)

----------------------------------------------------------------------------
(* The persisted store: data.json, read and rewritten whole *)

\* an object without own properties
EmptyObject == [key \in {} |-> key]

\* the value readData returns when data.json does not exist yet; users,
\* sessions and progress are objects keyed by email, token and email
EmptyData ==
  [users |-> EmptyObject, sessions |-> EmptyObject, progress |-> EmptyObject,
   aiKnowledge |-> <<>>, admins |-> {}, adminSessions |-> {}]

readData == data

\* a response field that is left out of the JSON body
None == "undefined"

DefaultAdmin == [email |-> "admin@claronav.com", password |-> "admin123"]

\* a token or an id that the request does not carry (a falsy value)
Missing == 0

\* a token that is the name of a property every object inherits from
\* Object.prototype ('constructor'): object[token] is then a function,
\* which is truthy
Inherited == 0 - 1

\* data.adminSessions[token] of an object that exists: an own property (a
\* session) or an inherited one
AdminSession(d, token) ==
  \/ token \in d.adminSessions
  \/ token = Inherited /\ d.adminSessions # {}

\* token = req.query.token || req.body.token, then the session lookup
requireAdmin(queryToken, bodyToken, d) ==
  LET token == IF queryToken # Missing THEN queryToken ELSE bodyToken
  IN  IF token = Missing THEN [ok |-> FALSE, status |-> 400, error |-> "Missing token"]
      ELSE IF ~AdminSession(d, token)
        THEN [ok |-> FALSE, status |-> 401, error |-> "Unauthorized"]
      ELSE [ok |-> TRUE, status |-> 200, error |-> None]

----------------------------------------------------------------------------
(* extractTextFromFile *)

MimeText == "text/plain"
MimePdf  == "application/pdf"
MimeDocx == "application/vnd.openxmlformats-officedocument.wordprocessingml.document"
MimePng  == "image/png"

ExtTxt  == <<".","t","x","t">>
ExtPdf  == <<".","p","d","f">>
ExtDocx == <<".","d","o","c","x">>

UnsupportedFileType == "Unsupported file type. Please upload TXT, PDF, or DOCX."

\* what a parsing library does with a file it cannot read
Throws == Lit("library error")

\* path.extname: from the last dot of the name to its end; empty when the
\* name has no dot or its only dot is its first character
extname(name) ==
  LET dots == {i \in DOMAIN name : name[i] = "."}
  IN  IF dots = {} THEN <<>>
      ELSE LET last == CHOOSE i \in dots : \A j \in dots : j <= i
           IN  IF last = 1 THEN <<>> ELSE SubSeq(name, last, Len(name))

\* fs.readFileSync(filePath, 'utf8')
DecodeUtf8(content) == [ok |-> TRUE, text |-> content.raw]

\* pdfParse(buffer), then parsed && parsed.text ? parsed.text : ''
DecodePdf(content) ==
  IF content.pdf = Throws THEN [ok |-> FALSE, error |-> "library error"]
  ELSE [ok |-> TRUE, text |-> Str(content.pdf)]

\* mammoth.extractRawText, then result && result.value ? result.value : ''
DecodeDocx(content) ==
  IF content.docx = Throws THEN [ok |-> FALSE, error |-> "library error"]
  ELSE [ok |-> TRUE, text |-> Str(content.docx)]

\* the branch extractTextFromFile takes
ExtractBranch(mimeType, originalName) ==
  LET ext == toLowerCase(extname(Str(originalName)))
  IN  IF mimeType = MimeText \/ ext = ExtTxt THEN "utf8"
      ELSE IF mimeType = MimePdf \/ ext = ExtPdf THEN "pdf"
      ELSE IF mimeType = MimeDocx \/ ext = ExtDocx THEN "docx"
      ELSE "unsupported"

extractTextFromFile(content, mimeType, originalName) ==
  LET branch == ExtractBranch(mimeType, originalName)
  IN  CASE branch = "utf8" -> DecodeUtf8(content)
        [] branch = "pdf"  -> DecodePdf(content)
        [] branch = "docx" -> DecodeDocx(content)
        [] OTHER -> [ok |-> FALSE, error |-> UnsupportedFileType]

----------------------------------------------------------------------------
(* The matcher of POST /api/ai/chat *)

\* tokens.includes(q)
Includes(tokens, q) == \E j \in DOMAIN tokens : tokens[j] = q

OverlapDistinct(questionTokens, tokens) ==
  Cardinality(Range(questionTokens) \cap Range(tokens))

\* questionTokens.forEach(q => { if (tokens.includes(q)) overlap += 1; })
RECURSIVE Overlap(_, _)
Overlap(questionTokens, tokens) ==
  IF questionTokens = <<>> THEN 0
  ELSE (IF Includes(tokens, Head(questionTokens)) THEN 1 ELSE 0)
         + Overlap(Tail(questionTokens), tokens)

BelowZero == 0 - 1

InitScore == 0

InitBest == [score |-> InitScore, sentence |-> <<>>, title |-> ""]

GreaterOrEqual(overlap, score) == overlap >= score

\* if (overlap > best.score)
Better(overlap, score) == overlap > score

\* sentences.forEach(...) of one entry
RECURSIVE ScanSentences(_, _, _, _)
ScanSentences(sentences, title, questionTokens, best) ==
  IF sentences = <<>> THEN best
  ELSE LET sentence == Head(sentences)
           overlap == Overlap(questionTokens, tokenize(sentence))
           next == IF Better(overlap, best.score)
                     THEN [score |-> overlap, sentence |-> Trim(sentence), title |-> title]
                     ELSE best
       IN  ScanSentences(Tail(sentences), title, questionTokens, next)

\* data.aiKnowledge.forEach(...)
RECURSIVE ScanEntries(_, _, _)
ScanEntries(entries, questionTokens, best) ==
  IF entries = <<>> THEN best
  ELSE ScanEntries(Tail(entries), questionTokens,
         ScanSentences(splitSentences(Head(entries).text), Head(entries).title,
                       questionTokens, best))

NoMaterial == Lit("No training material is available yet. Please try again later.")
NoRelevant == Lit("I could not find a relevant answer in the training material. Try rephrasing your question.")

\* !question
Falsy(question) == question = Undefined \/ question = <<>>

UntrimmedMissing(question) == Falsy(question)

\* !question || !String(question).trim()
MissingQuestion(question) == Falsy(question) \/ Trim(Str(question)) = <<>>

ChatReply(question, status, error, answer, sourceTitle, scanned) ==
  [op |-> "chat", question |-> question, status |-> status, error |-> error,
   answer |-> answer, sourceTitle |-> sourceTitle, scanned |-> scanned]

\* the scan and the reply, once the store is known to hold an entry
ChatScan(question, entries) ==
  LET questionTokens == tokenize(question)
      best == ScanEntries(entries, questionTokens, InitBest)
  IN  IF best.sentence = <<>>
        THEN ChatReply(question, 200, None, NoRelevant, None, TRUE)
        ELSE ChatReply(question, 200, None, best.sentence,
                       IF best.title # "" THEN best.title ELSE None, TRUE)

ChatSkipEmptyCheck(question, d) ==
  IF MissingQuestion(question)
    THEN ChatReply(question, 400, "Missing question", Undefined, None, FALSE)
    ELSE ChatScan(question, d.aiKnowledge)

\* the handler of POST /api/ai/chat; scanned tells whether it went on to
\* tokenize the question and scan the store
ChatHandler(question, d) ==
  IF MissingQuestion(question)
    THEN ChatReply(question, 400, "Missing question", Undefined, None, FALSE)
  ELSE IF Len(d.aiKnowledge) = 0
    THEN ChatReply(question, 200, None, NoMaterial, None, FALSE)
  ELSE ChatScan(question, d.aiKnowledge)

----------------------------------------------------------------------------
(* The requests the model sends *)

\* "The dog. A cat dog!"
TextA == <<"T","h","e"," ","d","o","g","."," ","A"," ","c","a","t"," ","d","o","g","!">>
\* "\n Cat is?  Dog-dog the\tcat "
TextB == <<"\n"," ","C","a","t"," ","i","s","?"," "," ","D","o","g","-","d","o","g"," ","t","h","e","\t","c","a","t"," ">>
\* "A dog? The DOG-DOG dog cat.\tOwl"
TextC == <<"A"," ","d","o","g","?"," ","T","h","e"," ","D","O","G","-","D","O","G"," ","d","o","g"," ","c","a","t",".","\t","O","w","l">>
TextBlank == <<" ","\n">>
RawPdf == <<"%","P","D","F">>
RawZip == <<"P","K">>
RawPng == <<"P","N","G">>

\* a file's bytes: as UTF-8 text, and what each parsing library makes of them
\* (a text, Undefined for a result without text, Throws)
Content(raw, pdf, docx) == [raw |-> raw, pdf |-> pdf, docx |-> docx]

File(mimetype, originalname, content) ==
  [mimetype |-> mimetype, originalname |-> originalname, content |-> content]

UploadFiles ==
  { File(MimeText, <<"a",".","t","x","t">>, Content(TextA, Throws, Throws)),
    File(MimePdf,  <<"b",".","p","d","f">>, Content(RawPdf, TextB, Throws)),
    File(MimeDocx, <<"d",".","d","o","c","x">>, Content(RawZip, Throws, TextC)),
    File(MimeText, <<"e",".","t","x","t">>, Content(TextBlank, Throws, Throws)),
    File(MimePdf,  <<"s",".","P","D","F">>, Content(RawPdf, Undefined, Throws)),
    File(MimeDocx, <<"c",".","d","o","c","x">>, Content(RawZip, Throws, Throws)),
    File(MimePng,  <<"x",".","p","n","g">>, Content(RawPng, Throws, Throws)) }

\* the text files that fill the store for the chat
ChatFiles ==
  { File(MimeText, <<"a",".","t","x","t">>, Content(TextA, Throws, Throws)),
    File(MimeText, <<"b",".","T","X","T">>, Content(TextB, Throws, Throws)) }

Titles == {"Anatomy", "Guide"}

\* the request without a file
NoFile == File(None, Undefined, Content(<<>>, Throws, Throws))

\* <<req.query.token, req.body.token>>: Missing, a token a login issues
\* (1..MaxSessions), a token no login issues, the name of an inherited
\* property
Forged == MaxSessions + 1

TokenPairs ==
  {<<Missing, Missing>>, <<Missing, Forged>>, <<Forged, 1>>, <<1, Forged>>,
   <<Missing, Inherited>>}
    \cup {<<Missing, t>> : t \in 1..MaxSessions}

QCat == <<"c","a","t">>
QTheDogCat == <<"t","h","e"," ","D","O","G"," ","c","a","t">>
QDogDog == <<"d","o","g",","," ","d","o","g","?">>
QIsA == <<"i","s"," ","a">>
QOwl == <<"A","n"," ","o","w","l">>
QBlank == <<" ","\t">>

Questions == {QCat, QTheDogCat, QDogDog, QIsA, QOwl, QBlank, <<>>, Undefined}

----------------------------------------------------------------------------
(* POST /api/admin/login *)

AdminLoginWith(emails, passwords, limit) ==
  \E email \in emails, password \in passwords :
    IF email = "" \/ password = ""
      THEN /\ resp' = [op |-> "admin-login", status |-> 400, token |-> Missing]
           /\ UNCHANGED <<data, files, pending, nextFile, nextToken, call>>
      ELSE LET d0 == readData
               \* the default admin is created, and saved, before the check
               d1 == [d0 EXCEPT !.admins = @ \cup {DefaultAdmin}]
           IN  IF [email |-> email, password |-> password] \notin d1.admins
                 THEN /\ data' = d1
                      /\ resp' = [op |-> "admin-login", status |-> 401, token |-> Missing]
                      /\ UNCHANGED <<files, pending, nextFile, nextToken, call>>
                 ELSE /\ nextToken <= limit
                      /\ data' = [d1 EXCEPT !.adminSessions = @ \cup {nextToken}]
                      /\ nextToken' = nextToken + 1
                      /\ resp' = [op |-> "admin-login", status |-> 200, token |-> nextToken]
                      /\ UNCHANGED <<files, pending, nextFile, call>>

AdminLogin ==
  AdminLoginWith({"", DefaultAdmin.email, "eve@example.com"},
                 {"", DefaultAdmin.password, "letmein"}, MaxSessions)

----------------------------------------------------------------------------
(* POST /api/admin/ai/upload *)

keepFile(dir, filename) == dir

\* fs.unlinkSync(path) in a directory dir
unlinkSync(dir, filename) == dir \ {filename}

\* the upload directory when multer has saved the file of the request
Saved(filename) == files \cup {filename}

UploadReply(status, error, filename, entry) ==
  [op |-> "upload", status |-> status, error |-> error, filename |-> filename,
   entry |-> entry]

NoEntry == [id |-> Missing, title |-> "", originalName |-> <<>>]

\* const cleanedText = String(extractedText || '').trim()
CleanedText(extractedText) == Trim(Str(extractedText))

NeverRefused(cleanedText) == FALSE

\* if (!cleanedText): the upload is refused
NoReadableText(cleanedText) == cleanedText = <<>>

\* the entry of a successful upload; its id (8 random bytes) and its file's
\* name (time and random digits) are fresh, here the number of the upload
NewEntry(title, filename, file, cleanedText) ==
  [id |-> filename, title |-> title, filename |-> filename,
   originalName |-> file.originalname, mimeType |-> file.mimetype,
   text |-> cleanedText]

\* the handler from the result of extractTextFromFile on: d is the store
\* as the handler read it before the extraction
UploadComplete(d, title, filename, file, result) ==
  IF ~result.ok
    THEN \* catch (err): the file is removed
         /\ files' = unlinkSync(Saved(filename), filename)
         /\ resp' = UploadReply(400, result.error, filename, NoEntry)
         /\ UNCHANGED data
    ELSE LET cleanedText == CleanedText(result.text)
         IN  IF NoReadableText(cleanedText)
               THEN /\ files' = unlinkSync(Saved(filename), filename)
                    /\ resp' = UploadReply(400, "No readable text found in file",
                                           filename, NoEntry)
                    /\ UNCHANGED data
               ELSE LET entry == NewEntry(title, filename, file, cleanedText)
                    IN  /\ data' = [d EXCEPT !.aiKnowledge = Append(@, entry)]
                        /\ files' = Saved(filename)
                        /\ resp' = UploadReply(200, None, filename,
                                      [id |-> entry.id, title |-> entry.title,
                                       originalName |-> entry.originalName])

\* the request up to the await of extractTextFromFile; a file that is read
\* with readFileSync, or refused, is handled to the end before any other
\* request runs
AiUploadWith(titles, tokens, uploads, limit) ==
  \E title \in titles, token \in tokens, file \in uploads :
    LET filename == nextFile
        queryToken == token[1]
        bodyToken == token[2]
        hasFile == file # NoFile
    IN  /\ hasFile => nextFile <= limit
        /\ nextFile' = IF hasFile THEN nextFile + 1 ELSE nextFile
        /\ UNCHANGED <<nextToken, call>>
        /\ IF title = "" \/ bodyToken = Missing \/ ~hasFile
             THEN \* multer has saved the file: it is removed again
                  /\ resp' = UploadReply(400, "Missing required fields",
                                         IF hasFile THEN filename ELSE Missing, NoEntry)
                  /\ files' = IF hasFile THEN unlinkSync(Saved(filename), filename)
                                         ELSE files
                  /\ UNCHANGED <<data, pending>>
             ELSE LET d == readData
                      auth == requireAdmin(queryToken, bodyToken, d)
                      branch == ExtractBranch(file.mimetype, file.originalname)
                  IN  IF ~auth.ok
                        THEN /\ resp' = UploadReply(auth.status, auth.error, filename, NoEntry)
                             /\ files' = unlinkSync(Saved(filename), filename)
                             /\ UNCHANGED <<data, pending>>
                      ELSE IF branch \in {"pdf", "docx"}
                        THEN /\ pending' = pending \cup
                                   {[data |-> d, title |-> title,
                                     filename |-> filename, file |-> file]}
                             /\ files' = Saved(filename)
                             /\ resp' = [op |-> "upload-await", filename |-> filename]
                             /\ UNCHANGED data
                      ELSE /\ UploadComplete(d, title, filename, file,
                                extractTextFromFile(file.content, file.mimetype,
                                                    file.originalname))
                           /\ UNCHANGED pending

AiUpload ==
  AiUploadWith({"Anatomy", ""}, TokenPairs, UploadFiles \cup {NoFile}, MaxUploads)

AiUploadResumeFresh ==
  \E r \in pending :
    /\ pending' = pending \ {r}
    /\ UploadComplete(readData, r.title, r.filename, r.file,
          extractTextFromFile(r.file.content, r.file.mimetype, r.file.originalname))
    /\ UNCHANGED <<nextFile, nextToken, call>>

\* the rest of the handler, when the parsing library has answered
AiUploadResume ==
  \E r \in pending :
    /\ pending' = pending \ {r}
    /\ UploadComplete(r.data, r.title, r.filename, r.file,
          extractTextFromFile(r.file.content, r.file.mimetype, r.file.originalname))
    /\ UNCHANGED <<nextFile, nextToken, call>>

----------------------------------------------------------------------------
(* DELETE /api/admin/ai/knowledge *)

DeleteReply(status, id) == [op |-> "delete", status |-> status, id |-> id]

\* data.aiKnowledge.findIndex(item => item.id === id), 0 for -1
findIndex(entries, id) ==
  IF \E i \in DOMAIN entries : entries[i].id = id
    THEN CHOOSE i \in DOMAIN entries :
           entries[i].id = id /\ \A j \in 1..(i-1) : entries[j].id # id
    ELSE 0

spliceFirst(entries, idx) == Tail(entries)

\* entries.splice(idx, 1)
splice(entries, idx) ==
  SubSeq(entries, 1, idx - 1) \o SubSeq(entries, idx + 1, Len(entries))

AiDeleteWith(ids, tokens) ==
  \E id \in ids, token \in tokens :
    LET queryToken == token[1]
        bodyToken == token[2]
    IN
    /\ UNCHANGED <<pending, nextFile, nextToken, call>>
    /\ IF id = Missing \/ bodyToken = Missing
         THEN /\ resp' = DeleteReply(400, id)
              /\ UNCHANGED <<data, files>>
         ELSE LET d == readData
                  auth == requireAdmin(queryToken, bodyToken, d)
                  idx == findIndex(d.aiKnowledge, id)
              IN  IF ~auth.ok
                    THEN /\ resp' = DeleteReply(auth.status, id)
                         /\ UNCHANGED <<data, files>>
                  ELSE IF idx = 0
                    THEN /\ resp' = DeleteReply(404, id)
                         /\ UNCHANGED <<data, files>>
                  ELSE /\ files' = unlinkSync(files, d.aiKnowledge[idx].filename)
                       /\ data' = [d EXCEPT !.aiKnowledge = splice(@, idx)]
                       /\ resp' = DeleteReply(200, id)

AiDelete == AiDeleteWith(0..MaxUploads, TokenPairs)

----------------------------------------------------------------------------
(* POST /api/ai/chat *)

AiChatWith(questions) ==
  \E question \in questions :
    /\ resp' = ChatHandler(question, readData)
    /\ UNCHANGED <<data, files, pending, nextFile, nextToken, call>>

AiChat == AiChatWith({QCat, QBlank})

----------------------------------------------------------------------------
(* Accounts: the helpers of the user routes *)

\* String(Object): the inherited property 'constructor' used as a key
ObjectSource == "function Object() { [native code] }"

\* data.sessions[token] as a key of data.users: the email of the session,
\* the inherited function, or "" for undefined
SessionEmail(d, token) ==
  IF token \in DOMAIN d.sessions THEN d.sessions[token]
  ELSE IF token = Inherited THEN ObjectSource
  ELSE ""

\* data.users[email] is a user
HasUser(d, email) == email \in DOMAIN d.users

\* object[key] = value
Put(object, key, value) == (key :> value) @@ object

\* a user without accountStatus is approved; every user of signup has one,
\* with registeredAt (a time, left out) and emailVerified
normalizeUserStatus(user) ==
  IF user.accountStatus = "" THEN [user EXCEPT !.accountStatus = "approved"]
  ELSE user

isApproved(user)   == user.accountStatus = "approved"
isPending(user)    == user.accountStatus = "pending"
isRejected(user)   == user.accountStatus = "rejected"
isRestricted(user) == user.accountStatus = "restricted"

\* sha256 of the code
hashOtp(otp) == <<"sha256", otp>>

\* setUserOtp: otp is the code generateOtp draws; the code expires
\* OTP_TTL_MS later
setUserOtp(user, otp) ==
  [user EXCEPT !.otpHash = hashOtp(otp), !.otpExpiresAt = "set",
               !.emailVerified = FALSE]

NoHash == <<>>

\* isOtpValid: expired says that Date.now() is past otpExpiresAt
isOtpValid(user, otp, expired) ==
  /\ user.otpHash # NoHash
  /\ user.otpExpiresAt # None
  /\ ~expired
  /\ user.otpHash = hashOtp(otp)

\* firstName, lastName, serial, hospital of a request body
Fields(firstName, lastName, serial, hospital) ==
  [firstName |-> firstName, lastName |-> lastName, serial |-> serial,
   hospital |-> hospital]

HasEmpty(fields) ==
  \/ fields.firstName = ""
  \/ fields.lastName = ""
  \/ fields.serial = ""
  \/ fields.hospital = ""

\* the user that signup stores, before setUserOtp
NewUser(email, fields, password) ==
  [email |-> email, firstName |-> fields.firstName, lastName |-> fields.lastName,
   serial |-> fields.serial, hospital |-> fields.hospital, password |-> password,
   accountStatus |-> "pending", emailVerified |-> FALSE, otpHash |-> NoHash,
   otpExpiresAt |-> None, rejectedReason |-> None, profilePhoto |-> Missing]

\* the response of a user or admin route about email
Reply(op, status, error, email) ==
  [op |-> op, status |-> status, error |-> error, email |-> email]

MissingFields == "Missing fields"
UserNotFound == "User not found"

----------------------------------------------------------------------------
(* POST /api/signup, /api/signup/verify-otp, /api/signup/resend-otp *)

\* sent: sendOtpEmail delivered the code; the user is stored before
SignupWith(emails, bodies, passwords, otps, limit) ==
  \E email \in emails, fields \in bodies, password \in passwords,
     otp \in otps, sent \in BOOLEAN :
    /\ UNCHANGED <<files, pending, nextFile, nextToken, call>>
    /\ IF email = "" \/ HasEmpty(fields) \/ password = ""
         THEN /\ resp' = Reply("signup", 400, MissingFields, email)
              /\ UNCHANGED data
         ELSE LET d == readData
              IN  IF HasUser(d, email)
                    THEN /\ resp' = Reply("signup", 400, "Email already registered", email)
                         /\ UNCHANGED data
                    ELSE /\ Cardinality(DOMAIN d.users) < limit
                         /\ data' = [d EXCEPT !.users =
                                       Put(@, email,
                                           setUserOtp(NewUser(email, fields, password), otp))]
                         /\ resp' = IF sent
                                      THEN Reply("signup", 200, None, email)
                                      ELSE Reply("signup", 500,
                                                 "Could not send verification email. Please try again later.",
                                                 email)

VerifyOtpWith(emails, otps) ==
  \E email \in emails, otp \in otps, expired \in BOOLEAN :
    /\ UNCHANGED <<files, pending, nextFile, nextToken, call>>
    /\ IF email = "" \/ otp = ""
         THEN /\ resp' = Reply("verify-otp", 400, MissingFields, email)
              /\ UNCHANGED data
         ELSE LET d == readData
              IN  IF ~HasUser(d, email)
                    THEN /\ resp' = Reply("verify-otp", 404, UserNotFound, email)
                         /\ UNCHANGED data
                    ELSE LET user == normalizeUserStatus(d.users[email])
                         IN  IF user.emailVerified
                               THEN /\ resp' = Reply("verify-otp", 200, None, email)
                                    /\ UNCHANGED data
                             ELSE IF ~isOtpValid(user, otp, expired)
                               THEN /\ resp' = Reply("verify-otp", 400,
                                                     "Invalid or expired verification code.", email)
                                    /\ UNCHANGED data
                             ELSE /\ data' = [d EXCEPT !.users[email] =
                                                [user EXCEPT !.emailVerified = TRUE,
                                                             !.otpHash = NoHash,
                                                             !.otpExpiresAt = None]]
                                  /\ resp' = Reply("verify-otp", 200, None, email)

ResendOtpWith(emails, otps) ==
  \E email \in emails, otp \in otps, sent \in BOOLEAN :
    /\ UNCHANGED <<files, pending, nextFile, nextToken, call>>
    /\ IF email = ""
         THEN /\ resp' = Reply("resend-otp", 400, MissingFields, email)
              /\ UNCHANGED data
         ELSE LET d == readData
              IN  IF ~HasUser(d, email)
                    THEN /\ resp' = Reply("resend-otp", 404, UserNotFound, email)
                         /\ UNCHANGED data
                    ELSE LET user == normalizeUserStatus(d.users[email])
                         IN  IF user.emailVerified
                               THEN /\ resp' = Reply("resend-otp", 200, None, email)
                                    /\ UNCHANGED data
                               ELSE /\ data' = [d EXCEPT !.users[email] = setUserOtp(user, otp)]
                                    /\ resp' = IF sent
                                                 THEN Reply("resend-otp", 200, None, email)
                                                 ELSE Reply("resend-otp", 500,
                                                            "Could not send verification email. Please try again later.",
                                                            email)

----------------------------------------------------------------------------
(* POST /api/login *)

LoginReply(status, error, email, token) ==
  [op |-> "login", status |-> status, error |-> error, email |-> email,
   token |-> token]

\* the refusal of a user who may not log in, None for an approved one
LoginRefusal(user) ==
  IF ~user.emailVerified THEN "Please verify your email to continue."
  ELSE IF isPending(user)
    THEN "Your account is pending admin approval. Please wait for approval."
  ELSE IF isRejected(user)
    THEN "Your account has been rejected. Please contact support."
  ELSE IF isRestricted(user)
    THEN "Your account has been restricted by an administrator. Please contact support."
  ELSE None

\* the token (16 random bytes) is fresh, here the number of the login
LoginWith(emails, passwords, limit) ==
  \E email \in emails, password \in passwords :
    /\ UNCHANGED <<files, pending, nextFile, call>>
    /\ IF email = "" \/ password = ""
         THEN /\ resp' = LoginReply(400, MissingFields, email, Missing)
              /\ UNCHANGED <<data, nextToken>>
         ELSE LET d == readData
              IN  IF ~HasUser(d, email) \/ d.users[email].password # password
                    THEN /\ resp' = LoginReply(401, "Invalid credentials", email, Missing)
                         /\ UNCHANGED <<data, nextToken>>
                    ELSE LET user == normalizeUserStatus(d.users[email])
                         IN  IF LoginRefusal(user) # None
                               THEN /\ resp' = LoginReply(403, LoginRefusal(user), email, Missing)
                                    /\ UNCHANGED <<data, nextToken>>
                               ELSE /\ nextToken <= limit
                                    /\ data' = [d EXCEPT !.sessions = Put(@, nextToken, email)]
                                    /\ nextToken' = nextToken + 1
                                    /\ resp' = LoginReply(200, None, email, nextToken)

----------------------------------------------------------------------------
(* The routes of a logged-in user: /api/progress, /api/profile,           *)
(* /api/profile/photo, /api/change-password                                *)

\* the status after the checks of the session of token: 401 without a
\* session, noUser without its user, 403 unless the user is approved
Authorize(d, token, noUser) ==
  LET email == SessionEmail(d, token)
  IN  IF email = "" THEN 401
      ELSE IF ~HasUser(d, email) THEN noUser
      ELSE IF ~isApproved(normalizeUserStatus(d.users[email])) THEN 403
      ELSE 200

AuthError(status) ==
  IF status = 401 THEN "Unauthorized"
  ELSE IF status = 404 THEN UserNotFound
  ELSE "Account not approved"

\* the response of a route to the request that carries token
SessionReply(op, status, error, token, d) ==
  [op |-> op, status |-> status, error |-> error, token |-> token,
   email |-> SessionEmail(d, token)]

\* data.progress[email] || {}
ProgressOf(d, email) ==
  IF email \in DOMAIN d.progress THEN d.progress[email] ELSE EmptyObject

\* GET /api/progress: isApproved(undefined) is falsy
GetProgressWith(tokens) ==
  \E token \in tokens :
    LET d == readData
        status == Authorize(d, token, 403)
    IN  /\ UNCHANGED <<data, files, pending, nextFile, nextToken, call>>
        /\ resp' = IF status # 200
                     THEN SessionReply("progress-get", status, AuthError(status), token, d)
                     ELSE [op |-> "progress-get", status |-> 200, error |-> None,
                           token |-> token, email |-> SessionEmail(d, token),
                           progress |-> ProgressOf(d, SessionEmail(d, token))]

\* POST /api/progress
PostProgressWith(tokens, sections, values) ==
  \E token \in tokens, section \in sections, value \in values :
    LET d == readData
        status == Authorize(d, token, 403)
        email == SessionEmail(d, token)
    IN  /\ UNCHANGED <<files, pending, nextFile, nextToken, call>>
        /\ IF token = Missing \/ section = ""
             THEN /\ resp' = SessionReply("progress-post", 400, MissingFields, token, d)
                  /\ UNCHANGED data
           ELSE IF status # 200
             THEN /\ resp' = SessionReply("progress-post", status, AuthError(status), token, d)
                  /\ UNCHANGED data
           ELSE /\ data' = [d EXCEPT !.progress =
                              Put(@, email, Put(ProgressOf(d, email), section, value))]
                /\ resp' = SessionReply("progress-post", 200, None, token, d)

\* GET /api/profile
GetProfileWith(tokens) ==
  \E token \in tokens :
    LET d == readData
        status == Authorize(d, token, 404)
    IN  /\ UNCHANGED <<data, files, pending, nextFile, nextToken, call>>
        /\ resp' = IF token = Missing
                     THEN SessionReply("profile-get", 400, "Missing token", token, d)
                   ELSE IF status # 200
                     THEN SessionReply("profile-get", status, AuthError(status), token, d)
                   ELSE SessionReply("profile-get", 200, None, token, d)

\* POST /api/profile/photo: multer has saved the photo in the avatar
\* directory under a fresh name, here the number of the file
PostPhotoWith(tokens, limit) ==
  \E token \in tokens, hasFile \in BOOLEAN :
    LET d == readData
        status == Authorize(d, token, 404)
        email == SessionEmail(d, token)
        filename == nextFile
    IN  /\ hasFile => nextFile <= limit
        /\ nextFile' = IF hasFile THEN nextFile + 1 ELSE nextFile
        /\ UNCHANGED <<files, pending, nextToken, call>>
        /\ IF token = Missing \/ ~hasFile
             THEN /\ resp' = SessionReply("photo", 400, MissingFields, token, d)
                  /\ UNCHANGED data
           ELSE IF status # 200
             THEN /\ resp' = SessionReply("photo", status, AuthError(status), token, d)
                  /\ UNCHANGED data
           ELSE /\ data' = [d EXCEPT !.users[email] =
                              [normalizeUserStatus(@) EXCEPT !.profilePhoto = filename]]
                /\ resp' = SessionReply("photo", 200, None, token, d)

\* if (firstName) user.firstName = firstName, and so on
Update(user, fields) ==
  [user EXCEPT
     !.firstName = IF fields.firstName # "" THEN fields.firstName ELSE @,
     !.lastName = IF fields.lastName # "" THEN fields.lastName ELSE @,
     !.serial = IF fields.serial # "" THEN fields.serial ELSE @,
     !.hospital = IF fields.hospital # "" THEN fields.hospital ELSE @]

\* POST /api/profile
PostProfileWith(tokens, bodies) ==
  \E token \in tokens, fields \in bodies :
    LET d == readData
        status == Authorize(d, token, 404)
        email == SessionEmail(d, token)
    IN  /\ UNCHANGED <<files, pending, nextFile, nextToken, call>>
        /\ IF token = Missing
             THEN /\ resp' = SessionReply("profile-post", 400, "Missing token", token, d)
                  /\ UNCHANGED data
           ELSE IF status # 200
             THEN /\ resp' = SessionReply("profile-post", status, AuthError(status), token, d)
                  /\ UNCHANGED data
           ELSE /\ data' = [d EXCEPT !.users[email] =
                              Update(normalizeUserStatus(@), fields)]
                /\ resp' = SessionReply("profile-post", 200, None, token, d)

\* POST /api/change-password
ChangePasswordWith(tokens, passwords) ==
  \E token \in tokens, currentPassword \in passwords, newPassword \in passwords :
    LET d == readData
        status == Authorize(d, token, 404)
        email == SessionEmail(d, token)
    IN  /\ UNCHANGED <<files, pending, nextFile, nextToken, call>>
        /\ IF token = Missing \/ currentPassword = "" \/ newPassword = ""
             THEN /\ resp' = SessionReply("change-password", 400, MissingFields, token, d)
                  /\ UNCHANGED data
           ELSE IF status # 200
             THEN /\ resp' = SessionReply("change-password", status, AuthError(status), token, d)
                  /\ UNCHANGED data
           ELSE IF d.users[email].password # currentPassword
             THEN /\ resp' = SessionReply("change-password", 401,
                                          "Current password is incorrect", token, d)
                  /\ UNCHANGED data
           ELSE /\ data' = [d EXCEPT !.users[email] =
                              [normalizeUserStatus(@) EXCEPT !.password = newPassword]]
                /\ resp' = SessionReply("change-password", 200, None, token, d)

----------------------------------------------------------------------------
(* POST /api/admin/users/approve, /reject, /restrict *)

\* reason || fallback
Reason(reason, fallback) == IF reason # "" THEN reason ELSE fallback

\* the three routes: accountStatus and rejectedReason of the user are set
SetStatusWith(op, accountStatus, fallback, emails, tokens, reasons) ==
  \E email \in emails, token \in tokens, reason \in reasons :
    /\ UNCHANGED <<files, pending, nextFile, nextToken, call>>
    /\ IF email = ""
         THEN /\ resp' = Reply(op, 400, MissingFields, email)
              /\ UNCHANGED data
         ELSE LET d == readData
                  auth == requireAdmin(token[1], token[2], d)
              IN  IF ~auth.ok
                    THEN /\ resp' = Reply(op, auth.status, auth.error, email)
                         /\ UNCHANGED data
                  ELSE IF ~HasUser(d, email)
                    THEN /\ resp' = Reply(op, 404, UserNotFound, email)
                         /\ UNCHANGED data
                  ELSE /\ data' = [d EXCEPT !.users[email] =
                                     [normalizeUserStatus(@) EXCEPT
                                        !.accountStatus = accountStatus,
                                        !.rejectedReason = Reason(reason, fallback)]]
                       /\ resp' = Reply(op, 200, None, email)

\* user.rejectedReason = undefined
ApproveWith(emails, tokens) ==
  SetStatusWith("approve", "approved", None, emails, tokens, {""})

RejectWith(emails, tokens, reasons) ==
  SetStatusWith("reject", "rejected", "Rejected by admin", emails, tokens, reasons)

RestrictWith(emails, tokens, reasons) ==
  SetStatusWith("restrict", "restricted", "Restricted by admin", emails, tokens, reasons)

----------------------------------------------------------------------------
(* The server *)

NoCall == [fn |-> "none"]

Init ==
  /\ data = EmptyData
  /\ files = {}
  /\ pending = {}
  /\ nextFile = 1
  /\ nextToken = 1
  /\ resp = [op |-> "none"]
  /\ call = NoCall

Next == AdminLogin \/ AiUpload \/ AiUploadResume \/ AiDelete \/ AiChat

Spec == Init /\ [][Next]_vars

----------------------------------------------------------------------------
(* The store filled with text files, and every question asked of it *)

\* the admin logs in once and sends the token in the body
AdminToken == <<Missing, 1>>

NextChat ==
  \/ AdminLoginWith({DefaultAdmin.email}, {DefaultAdmin.password}, AdminToken[2])
  \/ AiUploadWith(Titles, {AdminToken}, ChatFiles, MaxDocs)
  \/ AiDeleteWith(1..MaxDocs, {AdminToken})
  \/ AiChatWith(Questions)

SpecChat == Init /\ [][NextChat]_vars

----------------------------------------------------------------------------
(* The accounts: signup, verification, approval, login and the routes of   *)
(* a session                                                               *)

Ann == "ann@example.com"

\* emails of the requests: none, a mailbox, the text of String(Object)
Emails == {"", Ann, ObjectSource}

Passwords == {"", "pw1", "pw2"}

\* the code generateOtp draws
Otps == {"123456"}

\* the admin logs in first: tokens up to MaxSessions are the admin's, the
\* next MaxLogins are the users'
LoginLimit == MaxSessions + MaxLogins

\* the tokens of the requests: none, the name of an inherited property,
\* every token a login issues and one that no login issues
SessionTokens == {Missing, Inherited} \cup 1..(LoginLimit + 1)

NextUsers ==
  \/ AdminLoginWith({DefaultAdmin.email}, {DefaultAdmin.password}, MaxSessions)
  \/ SignupWith(Emails,
                {Fields("Ann", "Lee", "S1", "General"), Fields("", "Lee", "S1", "General")},
                Passwords \ {"pw2"}, Otps, MaxUsers)
  \/ VerifyOtpWith(Emails, Otps \cup {"", "000000"})
  \/ ResendOtpWith(Emails, Otps)
  \/ LoginWith(Emails, Passwords, LoginLimit)
  \/ GetProgressWith(SessionTokens)
  \/ PostProgressWith(SessionTokens, {"", "intro"}, {100})
  \/ GetProfileWith(SessionTokens)
  \/ PostPhotoWith(SessionTokens, MaxPhotos)
  \/ PostProfileWith(SessionTokens,
                     {Fields("", "", "", ""), Fields("Anna", "", "", "")})
  \/ ChangePasswordWith(SessionTokens, Passwords)
  \/ ApproveWith(Emails, TokenPairs)
  \/ RejectWith(Emails, TokenPairs, {""})
  \/ RestrictWith(Emails, TokenPairs, {""})

SpecUsers == Init /\ [][NextUsers]_vars

----------------------------------------------------------------------------
(* Uploads of PDF and DOCX files, whose extraction other requests overlap: *)
(* uploads, deletions, a signup and its verification, approval and login,  *)
(* and progress                                                            *)

\* files that extractTextFromFile gives to a parsing library: a PDF with
\* text and a DOCX that mammoth cannot read
AwaitedFiles ==
  { File(MimePdf,  <<"b",".","p","d","f">>, Content(RawPdf, TextB, Throws)),
    File(MimeDocx, <<"c",".","d","o","c","x">>, Content(RawZip, Throws, Throws)) }

\* in these behaviours the admin logs in once, then the user once
UserToken == AdminToken[2] + 1

NextRace ==
  \/ AdminLoginWith({DefaultAdmin.email}, {DefaultAdmin.password}, AdminToken[2])
  \/ AiUploadWith({"Anatomy"}, {AdminToken}, AwaitedFiles, MaxUploads)
  \/ AiUploadResume
  \/ AiDeleteWith(1..MaxUploads, {AdminToken})
  \/ SignupWith({Ann}, {Fields("Ann", "Lee", "S1", "General")}, {"pw1"}, Otps, MaxUsers)
  \/ VerifyOtpWith({Ann}, Otps)
  \/ ApproveWith({Ann}, {AdminToken})
  \/ LoginWith({Ann}, {"pw1"}, UserToken)
  \/ PostProgressWith({UserToken}, {"intro"}, {100})

SpecRace == Init /\ [][NextRace]_vars

----------------------------------------------------------------------------
(* The knowledge base without overlapping requests: every request is       *)
(* handled to its end before the next one arrives                          *)

NextAlone ==
  \/ pending = {} /\ AdminLogin
  \/ pending = {} /\ AiUpload
  \/ AiUploadResume
  \/ pending = {} /\ AiDelete
  \/ pending = {} /\ AiChat

SpecAlone == Init /\ [][NextAlone]_vars

----------------------------------------------------------------------------
(* The helpers called on their own: call holds the arguments, then the    *)
(* value returned                                                          *)

ServerIdle ==
  /\ data = EmptyData
  /\ files = {}
  /\ pending = {}
  /\ nextFile = 1
  /\ nextToken = 1
  /\ resp = [op |-> "none"]

Call(fn, arg) == [fn |-> fn, arg |-> arg, done |-> FALSE, ret |-> <<>>]

Return(ret) ==
  /\ ~call.done
  /\ call' = [call EXCEPT !.done = TRUE, !.ret = ret]
  /\ UNCHANGED <<data, files, pending, nextFile, nextToken, resp>>

\* every string over alphabet of at most n characters
Strings(alphabet, n) == UNION {[1..k -> alphabet] : k \in 0..n}

TokenizeAlphabet == {"a", "B", "7", " ", "-"}

InitTokenize ==
  /\ ServerIdle
  /\ call \in {Call("tokenize", s) :
                 s \in Strings(TokenizeAlphabet, MaxTokenizeLen) \cup {Undefined}}

CallTokenize == call.fn = "tokenize" /\ Return(tokenize(call.arg))

SpecTokenize == InitTokenize /\ [][CallTokenize]_vars

\* tokenize called on phrases: up to MaxWords words with one space between
PhraseWords ==
  { <<"a">>, <<"a","n">>, <<"t","h","e">>, <<"c","a","t","a","l","o","g">> }

RECURSIVE Join(_)
Join(words) ==
  IF words = <<>> THEN <<>>
  ELSE IF Len(words) = 1 THEN Head(words)
  ELSE Head(words) \o <<" ">> \o Join(Tail(words))

InitPhrase ==
  /\ ServerIdle
  /\ call \in {Call("tokenize", Join(p)) : p \in Strings(PhraseWords, MaxWords)}

SpecPhrase == InitPhrase /\ [][CallTokenize]_vars

SplitAlphabet == {"a", ".", "?", " ", "\n"}

InitSplit ==
  /\ ServerIdle
  /\ call \in {Call("splitSentences", s) :
                 s \in Strings(SplitAlphabet, MaxSplitLen) \cup {Undefined}}

CallSplitSentences == call.fn = "splitSentences" /\ Return(splitSentences(call.arg))

SpecSplit == InitSplit /\ [][CallSplitSentences]_vars

OverlapTokens == {<<"c","a","t">>, <<"d","o","g">>, <<"t","h","e">>}

InitOverlap ==
  /\ ServerIdle
  /\ call \in {Call("overlap", [questionTokens |-> q, tokens |-> t]) :
                 q \in Strings(OverlapTokens, MaxToks),
                 t \in Strings(OverlapTokens, MaxToks)}

CallOverlap ==
  call.fn = "overlap" /\ Return(Overlap(call.arg.questionTokens, call.arg.tokens))

SpecOverlap == InitOverlap /\ [][CallOverlap]_vars

ExtractMimes == {MimeText, MimePdf, MimeDocx, MimePng, "application/octet-stream"}

ExtractNames ==
  { <<"a",".","t","x","t">>, <<"A",".","T","X","T">>, <<"b",".","p","d","f">>, <<"c",".","d","o","c","x">>, <<"x",".","p","n","g">>, <<"n","o","t","e","s">>, <<".","t","x","t">>, <<"v","1",".","2",".","P","d","f">>, <<"p","d","f",".","d","o","c","x">>,
    Undefined }

\* a text file, a PDF, a PDF without text, a DOCX, an image
ExtractContents ==
  { Content(TextA, Throws, Throws), Content(RawPdf, TextB, Throws),
    Content(RawPdf, Undefined, Throws), Content(RawZip, Throws, TextC),
    Content(RawPng, Throws, Throws) }

InitExtract ==
  /\ ServerIdle
  /\ call \in {Call("extractTextFromFile",
                    [content |-> c, mimeType |-> m, originalName |-> n]) :
                 c \in ExtractContents, m \in ExtractMimes, n \in ExtractNames}

CallExtract ==
  /\ call.fn = "extractTextFromFile"
  /\ Return(extractTextFromFile(call.arg.content, call.arg.mimeType,
                                call.arg.originalName))

SpecExtract == InitExtract /\ [][CallExtract]_vars

----------------------------------------------------------------------------
(* The matcher, stated from the sentences of the store *)

\* the number of positions of the question whose token is in the sentence
CountOverlap(questionTokens, tokens) ==
  Cardinality({i \in DOMAIN questionTokens : questionTokens[i] \in Range(tokens)})

\* every sentence of the store with its entry's title: entries in store
\* order, sentences in split order
RECURSIVE Candidates(_)
Candidates(entries) ==
  IF entries = <<>> THEN <<>>
  ELSE LET sentences == splitSentences(Head(entries).text)
       IN  [i \in DOMAIN sentences |->
              [sentence |-> sentences[i], title |-> Head(entries).title]]
             \o Candidates(Tail(entries))

Score(question, candidate) ==
  CountOverlap(tokenize(question), tokenize(candidate.sentence))

\* a question the chat takes as missing: absent, empty or only whitespace
Blank(question) ==
  question = Undefined \/ \A i \in DOMAIN question : IsSpace(question[i])

ChatAnswered == resp.op = "chat" /\ ~Blank(resp.question)

\* C1: when some sentence of a non-empty store has overlap >= 1, the answer
\* is the first sentence (entries in store order, sentences in split order)
\* whose overlap is the maximum over all sentences, a later sentence of equal
\* overlap never replaces it, and sourceTitle is the title of its entry.
C1_FirstBestSentenceWins ==
  ChatAnswered =>
    LET cands == Candidates(data.aiKnowledge)
        score(i) == Score(resp.question, cands[i])
    IN  (\E i \in DOMAIN cands : score(i) >= 1) =>
          LET first == CHOOSE i \in DOMAIN cands :
                         /\ \A j \in DOMAIN cands : score(j) <= score(i)
                         /\ \A j \in 1..(i-1) : score(j) < score(i)
          IN  /\ resp.status = 200
              /\ resp.answer = cands[first].sentence
              /\ resp.sourceTitle = cands[first].title

\* the answer is a sentence that a later sentence of another entry ties with
C1_Witness ==
  /\ ChatAnswered
  /\ LET cands == Candidates(data.aiKnowledge)
         score(i) == Score(resp.question, cands[i])
     IN  \E i, j \in DOMAIN cands :
           /\ i < j
           /\ score(i) >= 2
           /\ score(j) = score(i)
           /\ \A k \in DOMAIN cands : score(k) <= score(i)
           /\ cands[i].title # cands[j].title
           /\ resp.answer = cands[i].sentence
           /\ resp.sourceTitle = cands[i].title

\* C2 as claimed: a chat query with an empty, whitespace-only or absent
\* question is no error and is answered with a placeholder.
C2_BlankQuestionGetsPlaceholder ==
  (resp.op = "chat" /\ Blank(resp.question)) =>
    /\ resp.status = 200
    /\ resp.error = None
    /\ resp.answer \in {NoMaterial, NoRelevant}

\* C2 amended: a chat query with an empty, whitespace-only or absent question
\* is refused with status 400 and the error "Missing question", whatever the
\* store holds, before the store is read or scanned.
C2_BlankQuestionRefused ==
  (resp.op = "chat" /\ Blank(resp.question)) =>
    /\ resp.status = 400
    /\ resp.error = "Missing question"
    /\ resp.answer = Undefined
    /\ resp.sourceTitle = None
    /\ ~resp.scanned

\* a whitespace-only question refused while the store holds entries
C2_Witness ==
  /\ resp.op = "chat"
  /\ resp.question = QBlank
  /\ resp.status = 400
  /\ Len(data.aiKnowledge) >= 1

\* C3: with an empty store every chat query with a non-empty question gets
\* the "no training material" placeholder, without a sentence or a
\* sourceTitle, whatever its tokens, and before any tokenizing or scanning.
C3_EmptyStorePlaceholder ==
  (ChatAnswered /\ Len(data.aiKnowledge) = 0) =>
    /\ resp.status = 200
    /\ resp.error = None
    /\ resp.answer = NoMaterial
    /\ resp.sourceTitle = None
    /\ ~resp.scanned

\* a question with tokens asked of a store that was filled and emptied again
C3_Witness ==
  /\ ChatAnswered
  /\ tokenize(resp.question) # <<>>
  /\ Len(data.aiKnowledge) = 0
  /\ nextFile > 1
  /\ resp.answer = NoMaterial

NoTokenShared(question, entries) ==
  LET cands == Candidates(entries)
  IN  \A i \in DOMAIN cands :
        Range(tokenize(question)) \cap Range(tokenize(cands[i].sentence)) = {}

C5_OverlapCountsQuestionPositions ==
  (call.fn = "overlap" /\ call.done) =>
    call.ret = Cardinality({i \in DOMAIN call.arg.questionTokens :
                 \E j \in DOMAIN call.arg.tokens :
                   call.arg.tokens[j] = call.arg.questionTokens[i]})

\* a token twice in the question and twice in the sentence counts twice
C5_Witness ==
  /\ call.fn = "overlap"
  /\ call.done
  /\ call.arg.questionTokens = <<QCat, QCat, <<"d","o","g">> >>
  /\ call.arg.tokens = <<QCat, <<"t","h","e">>, QCat>>
  /\ call.ret = 2

----------------------------------------------------------------------------
(* extractTextFromFile, stated as a dispatch on the MIME type first *)

ExtractCalled == call.fn = "extractTextFromFile" /\ call.done

SupportedMimes == {MimeText, MimePdf, MimeDocx}

\* C6 as claimed: the MIME type decides when it is one of the three supported
\* types, whatever the extension; the extension (.txt, .pdf, .docx) decides
\* only for another MIME type; a file matching neither fails with the
\* unsupported-file-type error.
C6_MimeTypeDecidesFirst ==
  ExtractCalled =>
    LET mime == call.arg.mimeType
        ext == toLowerCase(extname(Str(call.arg.originalName)))
        content == call.arg.content
    IN  call.ret =
          CASE mime = MimeText -> DecodeUtf8(content)
            [] mime = MimePdf  -> DecodePdf(content)
            [] mime = MimeDocx -> DecodeDocx(content)
            [] mime \notin SupportedMimes /\ ext = ExtTxt  -> DecodeUtf8(content)
            [] mime \notin SupportedMimes /\ ext = ExtPdf  -> DecodePdf(content)
            [] mime \notin SupportedMimes /\ ext = ExtDocx -> DecodeDocx(content)
            [] OTHER -> [ok |-> FALSE, error |-> UnsupportedFileType]

----------------------------------------------------------------------------
(* The knowledge store under uploads and deletions *)

Store == data.aiKnowledge

HasText(text) == \E i \in DOMAIN text : ~IsSpace(text[i])

\* C7: after any uploads and deletions every entry of the store has a
\* non-empty text: an upload whose extracted text is empty or only whitespace
\* is refused and leaves no entry.
C7_EntriesHaveText ==
  /\ \A i \in DOMAIN Store : Store[i].text # <<>> /\ HasText(Store[i].text)
  /\ (resp.op = "upload" /\ resp.status # 200) =>
       \A i \in DOMAIN Store : Store[i].id # resp.filename

\* an upload refused for its empty text while the store holds an entry
C7_Witness ==
  /\ resp.op = "upload"
  /\ resp.status = 400
  /\ resp.error = "No readable text found in file"
  /\ Len(Store) >= 1

Uploaded == resp'.op = "upload" /\ resp'.status = 200

Deleted == resp'.op = "delete" /\ resp'.status = 200

HasId(entries, id) == \E i \in DOMAIN entries : entries[i].id = id

Without(entries, i) ==
  [k \in 1..(Len(entries) - 1) |-> IF k < i THEN entries[k] ELSE entries[k + 1]]

\* a successful upload leaves seen, with the upload's entry appended
AppendsTo(seen) ==
  /\ Len(Store') = Len(seen) + 1
  /\ SubSeq(Store', 1, Len(seen)) = seen
  /\ Store'[Len(Store')].id = resp'.entry.id
  /\ Store'[Len(Store')].title = resp'.entry.title
  /\ Store'[Len(Store')].filename \in files'

\* deleting an id of the store removes that entry alone, and its file
DeleteRemovesOne ==
  Deleted =>
    \E i \in DOMAIN Store :
      /\ Store[i].id = resp'.id
      /\ Store' = Without(Store, i)
      /\ files' = files \ {Store[i].filename}

\* deleting an id that is not in the store is not found and changes nothing
DeleteUnknown ==
  /\ (resp'.op = "delete" /\ ~HasId(Store, resp'.id)) =>
       resp'.status \in {400, 401, 404} /\ data' = data /\ files' = files
  /\ (resp'.op = "delete" /\ resp'.status = 404) => ~HasId(Store, resp'.id)

OnlyUploadAndDelete == Store' # Store => Uploaded \/ Deleted

\* the store as the handler of the upload that ends in this step read it:
\* before its extraction when it waited for one, else in this step
StoreRead ==
  IF pending' # pending
    THEN (CHOOSE r \in pending \ pending' : TRUE).data.aiKnowledge
    ELSE Store

----------------------------------------------------------------------------
(* splitSentences and tokenize, stated from the characters of the text *)

\* s with every whitespace run replaced by one space
RECURSIVE CollapsedFrom(_, _)
CollapsedFrom(s, i) ==
  IF i > Len(s) THEN <<>>
  ELSE (IF ~IsSpace(s[i]) THEN <<s[i]>>
        ELSE IF i = 1 \/ ~IsSpace(s[i-1]) THEN <<" ">>
        ELSE <<>>) \o CollapsedFrom(s, i + 1)

SplitCalled == call.fn = "splitSentences" /\ call.done /\ call.arg # Undefined

NoTerminal(s) == \A i \in DOMAIN s : ~IsTerminal(s[i])

\* C9 as claimed: a text without '.', '!' or '?' gives exactly one fragment,
\* the whole text with every whitespace run collapsed to one space.
C9_NoTerminalOneFragment ==
  (SplitCalled /\ NoTerminal(call.arg)) =>
    call.ret = <<CollapsedFrom(call.arg, 1)>>

\* C9 amended: a text without '.', '!' or '?' that has a character other than
\* whitespace gives exactly one fragment, the whole text with every whitespace
\* run collapsed to one space; an empty or whitespace-only text gives none.
C9_NoTerminalOneFragmentIfText ==
  (SplitCalled /\ NoTerminal(call.arg)) =>
    call.ret = IF HasText(call.arg) THEN <<CollapsedFrom(call.arg, 1)>> ELSE <<>>

\* a text without terminal whose whitespace runs were collapsed
C9_Witness ==
  /\ SplitCalled
  /\ NoTerminal(call.arg)
  /\ \E i \in 2..(Len(call.arg) - 1) :
       /\ IsSpace(call.arg[i]) /\ IsSpace(call.arg[i+1])
       /\ ~IsSpace(call.arg[i-1]) /\ ~IsSpace(call.arg[Len(call.arg)])
  /\ Len(call.ret) = 1
  /\ Len(call.ret[1]) < Len(call.arg)

\* the words of s from position i on: the maximal runs of [a-z0-9]
RECURSIVE WordsFrom(_, _)
WordsFrom(s, i) ==
  IF i > Len(s) THEN <<>>
  ELSE IF ~IsLowerAlnum(s[i]) THEN WordsFrom(s, i + 1)
  ELSE LET end == CHOOSE j \in i..Len(s) :
                    /\ \A k \in i..j : IsLowerAlnum(s[k])
                    /\ (j = Len(s) \/ ~IsLowerAlnum(s[j+1]))
       IN  <<SubSeq(s, i, end)>> \o WordsFrom(s, end + 1)

TokenizeCalled == call.fn = "tokenize" /\ call.done

\* C10: tokenize returns the words of the lower-cased text (every character
\* outside [a-z0-9] separates) that are longer than 2 characters, in order
\* and with duplicates; no token has length <= 2; empty or absent input gives
\* the empty sequence.
C10_TokensAreLongWords ==
  TokenizeCalled =>
    LET text == IF call.arg = Undefined THEN <<>> ELSE call.arg
        lower == [i \in DOMAIN text |-> ToLowerChar(text[i])]
        words == WordsFrom(lower, 1)
        long == {i \in DOMAIN words : Len(words[i]) >= 3}
    IN  /\ Len(call.ret) = Cardinality(long)
        /\ \A k \in DOMAIN call.ret :
             \E i \in long :
               /\ call.ret[k] = words[i]
               /\ Cardinality({j \in long : j < i}) = k - 1
        /\ \A k \in DOMAIN call.ret : Len(call.ret[k]) > 2
        /\ (text = <<>> => call.ret = <<>>)

\* the same word twice in the text, in two cases, gives the token twice
C10_Witness ==
  /\ TokenizeCalled
  /\ Len(call.ret) = 2
  /\ call.ret[1] = call.ret[2]
  /\ \E i \in DOMAIN call.arg : call.arg[i] = "B"

\* the phrase "a an the catalog"
ExamplePhrase == Join(<< <<"a">>, <<"a","n">>, <<"t","h","e">>, <<"c","a","t","a","l","o","g">> >>)

ExampleCalled == TokenizeCalled /\ call.arg = ExamplePhrase

\* C11 as stated: tokenize("a an the catalog") is ["catalog"]
C11_ExampleGivesCatalog ==
  ExampleCalled => call.ret = << <<"c","a","t","a","l","o","g">> >>

\* C11: tokenize("a an the catalog") is ["the", "catalog"]: "a" and "an"
\* are dropped, "the" has three characters and is kept
C11_ExampleGivesTheCatalog ==
  ExampleCalled =>
    call.ret = << <<"t","h","e">>, <<"c","a","t","a","l","o","g">> >>

C11_Witness == ExampleCalled /\ Len(call.ret) = 2

----------------------------------------------------------------------------
(* The accounts *)

\* the requests that act for a user: the login and the routes of a session
SessionOps ==
  {"login", "progress-get", "progress-post", "profile-get", "photo",
   "profile-post", "change-password"}

SessionRequestServed == resp.op \in SessionOps /\ resp.status = 200

\* C13: a login or a request of a session (progress read or write, profile
\* read or update, photo, change-password) is served only for a user whose
\* email is verified and whose account status is 'approved' at that time.
C13_ServedOnlyVerifiedApproved ==
  SessionRequestServed =>
    /\ HasUser(data, resp.email)
    /\ data.users[resp.email].emailVerified
    /\ data.users[resp.email].accountStatus = "approved"

----------------------------------------------------------------------------
(* The write-back of an upload *)

\* the extraction of request r ended in this step
Resumed(r) == r \in pending /\ r \notin pending'

\* the file of r has text: its upload is acknowledged whatever happened meanwhile
Readable(r) ==
  LET result == extractTextFromFile(r.file.content, r.file.mimetype,
                                    r.file.originalname)
  IN  result.ok /\ Trim(Str(result.text)) # <<>>

\* C12: an upload whose extraction ends is acknowledged with success when
\* its file has text, whatever other requests did during the extraction, and
\* then the whole store is what its handler read before the extraction with
\* its own entry appended: entries of uploads that wrote meanwhile,
\* deletions, signups, sessions and progress written meanwhile are gone.
C12_UploadWritesBackItsSnapshot ==
  [][\A r \in pending :
       Resumed(r) =>
         /\ resp'.op = "upload"
         /\ resp'.status = 200 <=> Readable(r)
         /\ resp'.status = 200 =>
               LET last == Store'[Len(Store')]
               IN  /\ last.id = r.filename
                   /\ last.title = r.title
                   /\ data' = [r.data EXCEPT !.aiKnowledge = Append(@, last)]
         /\ resp'.status # 200 => data' = data]_vars

\* two uploads overlapped and a user logged in meanwhile: both uploads were
\* acknowledged and both files are kept, the store holds one entry, and the
\* session of the login is gone
C12_Witness ==
  /\ resp.op = "upload"
  /\ resp.status = 200
  /\ pending = {}
  /\ Cardinality(files) = 2
  /\ Len(Store) = 1
  /\ HasUser(data, Ann)
  /\ nextToken > UserToken
  /\ data.adminSessions # {}
  /\ data.sessions = EmptyObject

----------------------------------------------------------------------------
(* The upload directory *)

\* the files that the entries of the store name
BackingFiles == {Store[i].filename : i \in DOMAIN Store}

\* this step answers an upload with a refusal
UploadRefused == resp'.op = "upload" /\ resp'.status # 200

\* C14: an upload that is refused (missing title, token or file, missing
\* or invalid admin token, unsupported type, library failure, no text) leaves
\* the store as it is and its file is not in the upload directory; when
\* requests do not overlap, the files of the directory are exactly the files
\* of the entries of the store whenever no extraction is awaited.
C14_RefusedUploadLeavesNothing ==
  /\ [][UploadRefused => data' = data /\ resp'.filename \notin files']_vars
  /\ [](pending = {} => files = BackingFiles)

\* an upload was refused after its extraction, while the store holds the
\* entry of an earlier upload and its file
C14_Witness ==
  /\ resp.op = "upload"
  /\ resp.status = 400
  /\ resp.filename = MaxUploads
  /\ resp.error = "library error"
  /\ Len(Store) = 1
  /\ files = BackingFiles

====
